---- MODULE Spec2Model ----
(***************************************************************************)
(* Model of the CSV analytics dashboard component DataAnalyzerFile:        *)
(* the ingestion handlers (handleFileChange, parseCsvFile and its parser   *)
(* callbacks, handleClearData) as a state machine over the component's     *)
(* React state, and the memoized aggregation views as operators over       *)
(* parsedData.                                                             *)
(*                                                                         *)
(* Encodings.  A text is a sequence of integer tokens; a date text         *)
(* "yyyy.MM.dd HH:00:00" is <<yyyy, MM, dd, HH>>, the empty string is <<>>,*)
(* and the token Comma stands for the character ','.  A nullable value is  *)
(* a sequence of length at most one: Null is <<>>, a present value v is    *)
(* <<v>>.  A Date is the number of hours since the start of year 1 of the  *)
(* proleptic Gregorian calendar (local time, no daylight saving).  A       *)
(* fractional number is a reduced fraction <<numerator, denominator>>.     *)
(***************************************************************************)
EXTENDS Integers, Sequences, FiniteSets, TLC

(* parsedData, fileName, loading, error: the component's React state.      *)
(* inflight: the Papa.parse calls whose callback has not run yet, each     *)
(* with the file its callbacks close over.                                 *)
(* memo: the values the useMemo hooks hold since the last render.          *)
(* ords: the state of ORDSComponent (data, loading, error), the position   *)
(* of its fetchData call and the response that call holds.                 *)
(* pastIngest: history variable.  <<>> when no history is kept; otherwise  *)
(* one record that holds the file of some completed ingestion with the     *)
(* state and views it left, whether Clear Data was invoked since, and the  *)
(* state and views some later ingestion of the same file left.             *)
VARIABLES parsedData, fileName, loading, error, inflight, memo, ords, pastIngest

vars == <<parsedData, fileName, loading, error, inflight, memo, ords, pastIngest>>

----------------------------------------------------------------------------
(* Bounds of the explored input space.                                     *)

MaxRows == 2

MaxHistRows == 2

MaxStatRows == 4

MaxGroupRows == 3

MaxActionRows == 3

MaxOrdsItems == 4

----------------------------------------------------------------------------
(* Nullable values and small helpers.                                      *)

Null == <<>>

Some(v) == <<v>>

Comma == 44

Max2(a, b) == IF a >= b THEN a ELSE b

RECURSIVE Gcd(_, _)
Gcd(a, b) == IF b = 0 THEN a ELSE Gcd(b, a % b)

(* JavaScript number n / d for integers n >= 0, d > 0, as a reduced fraction. *)
Frac(n, d) == LET g == Gcd(n, d) IN <<n \div g, d \div g>>

(* Math.floor(a / b) for b > 0 and integer a >= 0. *)
Floor(a, b) == a \div b

(* Truncation towards zero of a / b, b > 0. *)
Trunc(a, b) == IF a >= 0 THEN a \div b ELSE -((-a) \div b)

----------------------------------------------------------------------------
(* date-fns: parse, isValid, format, differenceInDays, differenceInHours.  *)

IsLeap(y) == (y % 4 = 0 /\ y % 100 # 0) \/ y % 400 = 0

DaysInMonth(y, mo) ==
    IF mo = 2 THEN (IF IsLeap(y) THEN 29 ELSE 28)
    ELSE IF mo \in {4, 6, 9, 11} THEN 30 ELSE 31

DaysBeforeYear(y) ==
    365 * (y - 1) + ((y - 1) \div 4) - ((y - 1) \div 100) + ((y - 1) \div 400)

RECURSIVE DaysBeforeMonth(_, _)
DaysBeforeMonth(y, mo) ==
    IF mo <= 1 THEN 0 ELSE DaysBeforeMonth(y, mo - 1) + DaysInMonth(y, mo - 1)

(* parse(text, 'yyyy.MM.dd HH:mm:ss', new Date()) followed by isValid:     *)
(* Null for an Invalid Date, the Date otherwise.                           *)
parse(txt) ==
    IF Len(txt) # 4 THEN Null
    ELSE LET y == txt[1]  mo == txt[2]  d == txt[3]  h == txt[4] IN
         IF /\ y >= 1
            /\ mo >= 1 /\ mo <= 12
            /\ d >= 1 /\ d <= DaysInMonth(y, mo)
            /\ h >= 0 /\ h <= 23
         THEN Some((DaysBeforeYear(y) + DaysBeforeMonth(y, mo) + (d - 1)) * 24 + h)
         ELSE Null

(* format(date, 'yyyy-MM'): the month key, as the number yyyy * 100 + MM,  *)
(* whose numeric order is the lexical order of the formatted strings.      *)
YearOf(t) ==
    LET day == t \div 24 IN
    CHOOSE y \in (day \div 366)..((day \div 365) + 1) :
        DaysBeforeYear(y) <= day /\ day < DaysBeforeYear(y + 1)

MonthOf(t) ==
    LET day == t \div 24
        y   == YearOf(t)
        doy == day - DaysBeforeYear(y) IN
    CHOOSE mo \in 1..12 :
        DaysBeforeMonth(y, mo) <= doy /\ doy < DaysBeforeMonth(y, mo) + DaysInMonth(y, mo)

format(t) == YearOf(t) * 100 + MonthOf(t)

(* Full days from dateRight to dateLeft, truncated towards zero. *)
differenceInDays(dateLeft, dateRight) == Trunc(dateLeft - dateRight, 24)

differenceInHours(dateLeft, dateRight) == dateLeft - dateRight

(* dateString.split(',')[0] *)
RECURSIVE SplitHead(_)
SplitHead(txt) ==
    IF txt = <<>> \/ Head(txt) = Comma THEN <<>>
    ELSE <<Head(txt)>> \o SplitHead(Tail(txt))

parseDate(dateString) ==
    IF dateString = <<>> THEN Null
    ELSE parse(SplitHead(dateString))

----------------------------------------------------------------------------
(* Row normalisation of parseCsvFile's complete callback.                  *)

(* The condition under which the durations are computed. *)
DurationOkUnordered(createdDate, actionDate) ==
    createdDate # Null /\ actionDate # Null

DurationOk(createdDate, actionDate) ==
    /\ createdDate # Null
    /\ actionDate # Null
    /\ actionDate[1] >= createdDate[1]

ProcessRow(row) ==
    LET createdDate == parseDate(row.CREATED_DATE)
        actionDate  == parseDate(row.ACTION_DATE)
        ok == DurationOk(createdDate, actionDate)
    IN  [ID                |-> row.ID,
         CREATED_DATE      |-> row.CREATED_DATE,
         ACTION_DATE       |-> row.ACTION_DATE,
         REGISTRATION_DATE |-> row.REGISTRATION_DATE,
         STAFF             |-> row.STAFF,
         REFERENCE         |-> row.REFERENCE,
         Action            |-> row.Action,
         createdDateValid  |-> createdDate,
         actionDateValid   |-> actionDate,
         durationHours     |-> IF ok THEN Some(differenceInHours(actionDate[1], createdDate[1]))
                               ELSE Null,
         durationDays      |-> IF ok THEN Some(differenceInDays(actionDate[1], createdDate[1]))
                               ELSE Null]

RowRetained(row) ==
    row.ID # "" /\ row.CREATED_DATE # <<>> /\ row.ACTION_DATE # <<>>

RECURSIVE FilterRows(_)
FilterRows(rows) ==
    IF rows = <<>> THEN <<>>
    ELSE (IF RowRetained(Head(rows)) THEN <<Head(rows)>> ELSE <<>>)
         \o FilterRows(Tail(rows))

Processed(data) == FilterRows([i \in 1..Len(data) |-> ProcessRow(data[i])])

----------------------------------------------------------------------------
(* Memoized aggregation views over parsedData.                             *)

(* A JavaScript object used as a counter map: its entries in insertion     *)
(* order, each [key, value].                                               *)
HasKey(counts, key) == \E i \in 1..Len(counts) : counts[i].key = key

(* counts[key] = (counts[key] || 0) + n *)
AddToOverwrite(counts, key, n) ==
    IF HasKey(counts, key)
    THEN [i \in 1..Len(counts) |->
            IF counts[i].key = key THEN [key |-> key, value |-> n] ELSE counts[i]]
    ELSE Append(counts, [key |-> key, value |-> n])

AddTo(counts, key, n) ==
    IF HasKey(counts, key)
    THEN [i \in 1..Len(counts) |->
            IF counts[i].key = key
            THEN [key |-> key, value |-> counts[i].value + n]
            ELSE counts[i]]
    ELSE Append(counts, [key |-> key, value |-> n])

(* counts[key] || 0 *)
Lookup(counts, key) ==
    IF HasKey(counts, key)
    THEN counts[CHOOSE i \in 1..Len(counts) : counts[i].key = key].value
    ELSE 0

(* Array.prototype.sort with a numeric comparator (a, b) => k(a) - k(b):   *)
(* a stable ascending sort of the items [k, v] by the fraction k.          *)
FracLeq(a, b) == a[1] * b[2] <= b[1] * a[2]

(* The sort key of a comparator (a, b) => b - a: descending order. *)
AscKey(frac) == frac

DescKey(frac) == <<-(frac[1]), frac[2]>>

RECURSIVE InsertByKey(_, _)
InsertByKey(sorted, item) ==
    IF sorted = <<>> THEN <<item>>
    ELSE IF FracLeq(Head(sorted).k, item.k)
         THEN <<Head(sorted)>> \o InsertByKey(Tail(sorted), item)
         ELSE <<item>> \o sorted

RECURSIVE SortByKey(_)
SortByKey(items) ==
    IF items = <<>> THEN <<>>
    ELSE InsertByKey(SortByKey(SubSeq(items, 1, Len(items) - 1)), items[Len(items)])

(* durations.sort((a, b) => a - b) *)
SortNumbersUnsorted(xs) == xs

SortNumbers(xs) ==
    LET sorted == SortByKey([i \in 1..Len(xs) |-> [k |-> <<xs[i], 1>>, v |-> xs[i]]])
    IN  [i \in 1..Len(xs) |-> sorted[i].v]

RECURSIVE Sum(_)
Sum(xs) == IF xs = <<>> THEN 0 ELSE Head(xs) + Sum(Tail(xs))

RECURSIVE MonthCounts(_, _)
MonthCounts(rows, counts) ==
    IF rows = <<>> THEN counts
    ELSE MonthCounts(Tail(rows),
            IF Head(rows).createdDateValid # Null
            THEN AddTo(counts, format(Head(rows).createdDateValid[1]), 1)
            ELSE counts)

monthlyCreations ==
    IF Len(parsedData) = 0 THEN <<>>
    ELSE LET counts == MonthCounts(parsedData, <<>>)
             sorted == SortByKey([i \in 1..Len(counts) |->
                          [k |-> <<counts[i].key, 1>>,
                           v |-> [month |-> counts[i].key, count |-> counts[i].value]]])
         IN  [i \in 1..Len(counts) |-> sorted[i].v]

(* parsedData.map(row => row.durationDays).filter(d => d !== null && d >= 0) *)
RECURSIVE ValidDurations(_)
ValidDurations(rows) ==
    IF rows = <<>> THEN <<>>
    ELSE (IF Head(rows).durationDays # Null /\ Head(rows).durationDays[1] >= 0
          THEN <<Head(rows).durationDays[1]>> ELSE <<>>)
         \o ValidDurations(Tail(rows))

ZeroStats == [average |-> <<0, 1>>, median |-> <<0, 1>>, min |-> 0, max |-> 0,
              durations |-> <<>>]

(* The median of an ascending array, as durationStats and                  *)
(* registrationToActionDuration compute it (0-based mid = floor(n / 2)).   *)
MedianOfUpper(sorted) ==
    LET mid == Floor(Len(sorted), 2) IN <<sorted[mid + 1], 1>>

MedianOf(sorted) ==
    LET mid == Floor(Len(sorted), 2) IN
    IF Len(sorted) % 2 # 0
    THEN <<sorted[mid + 1], 1>>
    ELSE Frac(sorted[mid] + sorted[mid + 1], 2)

durationStats ==
    IF Len(parsedData) = 0 THEN ZeroStats
    ELSE LET filtered == ValidDurations(parsedData) IN
         IF Len(filtered) = 0 THEN ZeroStats
         ELSE LET durations == SortNumbers(filtered) IN
              [average   |-> Frac(Sum(durations), Len(durations)),
               median    |-> MedianOf(durations),
               min       |-> durations[1],
               max       |-> durations[Len(durations)],
               durations |-> durations]

(* Bucket labels: a format string and the numbers interpolated into it.    *)
Label(fmt, args) == [fmt |-> fmt, args |-> args]

BinSizeStrict(maxDuration) ==
    IF maxDuration <= 1 THEN 1
    ELSE IF maxDuration <= 14 THEN 1
    ELSE IF maxDuration < 60 THEN 7
    ELSE IF maxDuration <= 365 THEN 30
    ELSE 90

BinSize(maxDuration) ==
    IF maxDuration <= 1 THEN 1
    ELSE IF maxDuration <= 14 THEN 1
    ELSE IF maxDuration <= 60 THEN 7
    ELSE IF maxDuration <= 365 THEN 30
    ELSE 90

Unit(maxDuration) ==
    IF maxDuration <= 1 THEN "day(s) (0-1)"
    ELSE IF maxDuration <= 14 THEN "day(s)"
    ELSE IF maxDuration <= 60 THEN "week(s)"
    ELSE IF maxDuration <= 365 THEN "month(s)"
    ELSE "quarter(s)"

(* unit.includes('day(s)') *)
UnitIncludesDays(unit) == unit \in {"day(s)", "day(s) (0-1)"}

BinName(unit, binSize, binIndex) ==
    LET binStart == binIndex * binSize
        binEnd   == binStart + binSize - 1 IN
    IF UnitIncludesDays(unit)
    THEN (IF binSize = 1 THEN Label("%d day(s)", <<binStart>>)
          ELSE Label("%d-%d days", <<binStart, binEnd>>))
    ELSE IF binSize = 7
    THEN Label("Week %d (~%d-%dd)", <<binIndex + 1, binStart, binEnd>>)
    ELSE Label("%d-%d days", <<binStart, binEnd>>)

(* The forEach over durations: the bins object and maxBinValue. *)
RECURSIVE FillBins(_, _, _, _)
FillBins(durations, unit, binSize, acc) ==
    IF durations = <<>> THEN acc
    ELSE LET binIndex == Floor(Head(durations), binSize)
             binStart == binIndex * binSize IN
         FillBins(Tail(durations), unit, binSize,
                  [bins        |-> AddTo(acc.bins, BinName(unit, binSize, binIndex), 1),
                   maxBinValue |-> Max2(acc.maxBinValue, binStart)])

(* Math.max(...xs, 0) *)
RECURSIVE MaxOf(_)
MaxOf(xs) == IF xs = <<>> THEN 0 ELSE Max2(Head(xs), MaxOf(Tail(xs)))

(* The loop for (i = 0; i <= maxBinValue; i += binSize) building sortedBins. *)
SortedBinsShort(unit, binSize, filled) ==
    [j \in 1..Floor(filled.maxBinValue, binSize) |->
        LET binName == BinName(unit, binSize, j - 1) IN
        [range |-> binName, count |-> Lookup(filled.bins, binName)]]

SortedBins(unit, binSize, filled) ==
    [j \in 1..(Floor(filled.maxBinValue, binSize) + 1) |->
        LET binName == BinName(unit, binSize, j - 1) IN
        [range |-> binName, count |-> Lookup(filled.bins, binName)]]

(* The final branches: the collapse into the combined 0-1 bucket. *)
CollapseNoRelabel(maxDuration, binSize, sortedBins) ==
    IF maxDuration <= 1 /\ binSize = 1 /\ Len(sortedBins) > 1
    THEN <<[range |-> Label("0-1 day(s)", <<>>),
            count |-> Sum([i \in 1..Len(sortedBins) |-> sortedBins[i].count])]>>
    ELSE sortedBins

Collapse(maxDuration, binSize, sortedBins) ==
    IF maxDuration <= 1 /\ binSize = 1 /\ Len(sortedBins) > 1
    THEN <<[range |-> Label("0-1 day(s)", <<>>),
            count |-> Sum([i \in 1..Len(sortedBins) |-> sortedBins[i].count])]>>
    ELSE IF maxDuration <= 1 /\ binSize = 1
    THEN (IF Len(sortedBins) = 0
          THEN <<[range |-> Label("0 day(s)", <<>>), count |-> 0]>>
          ELSE [sortedBins EXCEPT ![1].range = Label("0-1 day(s)", <<>>)])
    ELSE sortedBins

(* The body of durationHistogramData after its guard. *)
Histogram(durations) ==
    LET maxDuration == MaxOf(durations)
        binSize     == Max2(BinSize(maxDuration), 1)
        unit        == Unit(maxDuration)
        filled      == FillBins(durations, unit, binSize,
                                [bins |-> <<>>, maxBinValue |-> 0])
    IN  Collapse(maxDuration, binSize, SortedBins(unit, binSize, filled))

durationHistogramDataUnguarded == Histogram(durationStats.durations)

durationHistogramData ==
    IF Len(durationStats.durations) = 0 THEN <<>>
    ELSE Histogram(durationStats.durations)

(* The forEach of staffActivity: staffData, in insertion order of staff.   *)
RECURSIVE StaffData(_, _)
StaffData(rows, staffData) ==
    IF rows = <<>> THEN staffData
    ELSE LET row == Head(rows) IN
         StaffData(Tail(rows),
            IF row.STAFF # "" /\ row.durationDays # Null /\ row.durationDays[1] >= 0
            THEN IF \E i \in 1..Len(staffData) : staffData[i].staff = row.STAFF
                 THEN [i \in 1..Len(staffData) |->
                         IF staffData[i].staff = row.STAFF
                         THEN [staff         |-> row.STAFF,
                               totalDuration |-> staffData[i].totalDuration + row.durationDays[1],
                               count         |-> staffData[i].count + 1]
                         ELSE staffData[i]]
                 ELSE Append(staffData, [staff         |-> row.STAFF,
                                         totalDuration |-> row.durationDays[1],
                                         count         |-> 1])
            ELSE staffData)

staffActivity ==
    IF Len(parsedData) = 0 THEN [durations |-> <<>>, counts |-> <<>>]
    ELSE LET staffData == StaffData(parsedData, <<>>)
             avg(data) == IF data.count > 0 THEN Frac(data.totalDuration, data.count)
                          ELSE <<0, 1>>
             byAvg == SortByKey([i \in 1..Len(staffData) |->
                         [k |-> DescKey(avg(staffData[i])),
                          v |-> [staff |-> staffData[i].staff,
                                 avgDurationDays |-> avg(staffData[i])]]])
             byCount == SortByKey([i \in 1..Len(staffData) |->
                         [k |-> DescKey(<<staffData[i].count, 1>>),
                          v |-> [staff |-> staffData[i].staff,
                                 count |-> staffData[i].count]]])
         IN  [durations |-> [i \in 1..Len(staffData) |-> byAvg[i].v],
              counts    |-> [i \in 1..Len(staffData) |-> byCount[i].v]]

(* counts[name] = (counts[name] || 0) + 1 on the object literal {}.  The   *)
(* key "__proto__" names the accessor inherited from Object.prototype: the *)
(* read yields that prototype object, the sum is then a string, and the    *)
(* accessor's setter ignores a value that is neither an object nor null,   *)
(* so counts gets no property.                                             *)
CountKey(counts, name) ==
    IF name = "__proto__" THEN counts ELSE AddTo(counts, name, 1)

RECURSIVE ActionCounts(_, _)
ActionCounts(rows, counts) ==
    IF rows = <<>> THEN counts
    ELSE ActionCounts(Tail(rows),
            IF Head(rows).Action # "" THEN CountKey(counts, Head(rows).Action)
            ELSE counts)

actionTypeCounts ==
    IF Len(parsedData) = 0 THEN <<>>
    ELSE LET counts == ActionCounts(parsedData, <<>>)
             sorted == SortByKey([i \in 1..Len(counts) |->
                          [k |-> DescKey(<<counts[i].value, 1>>),
                           v |-> [name |-> counts[i].key, value |-> counts[i].value]]])
         IN  [i \in 1..Len(counts) |-> sorted[i].v]

(* The forEach of registrationToActionDuration: the entries pushed. *)
RECURSIVE RegDurations(_)
RegDurations(rows) ==
    IF rows = <<>> THEN <<>>
    ELSE LET row        == Head(rows)
             regDate    == parseDate(row.REGISTRATION_DATE)
             actionDate == row.actionDateValid IN
         (IF regDate # Null /\ actionDate # Null
             /\ differenceInDays(actionDate[1], regDate[1]) >= 0
          THEN <<[id              |-> row.ID,
                  reference       |-> row.REFERENCE,
                  regToActionDays |-> differenceInDays(actionDate[1], regDate[1])]>>
          ELSE <<>>)
         \o RegDurations(Tail(rows))

(* The result without entries has no data property; it is modelled with an *)
(* empty data sequence.                                                    *)
ZeroRegStats == [average |-> <<0, 1>>, median |-> <<0, 1>>, data |-> <<>>]

registrationToActionDuration ==
    IF Len(parsedData) = 0 THEN ZeroRegStats
    ELSE LET durations == RegDurations(parsedData) IN
         IF Len(durations) = 0 THEN ZeroRegStats
         ELSE LET daysArray == SortNumbers([i \in 1..Len(durations) |->
                                               durations[i].regToActionDays]) IN
              [average |-> Frac(Sum(daysArray), Len(daysArray)),
               median  |-> MedianOf(daysArray),
               data    |-> durations]

----------------------------------------------------------------------------
(* Input files.                                                            *)

RawRow(id, created, action, reg, staff, act) ==
    [ID |-> id, CREATED_DATE |-> created, ACTION_DATE |-> action,
     REGISTRATION_DATE |-> reg, STAFF |-> staff, Action |-> act,
     REFERENCE |-> "ref"]

SeqsUpTo(S, n) == UNION {[1..k -> S] : k \in 0..n}

(* File names as <<stem, extension>>, MIME types as strings; parser is the *)
(* outcome Papa.parse has on the file's content.                           *)
File(name, type, parser, data) ==
    [name |-> name, type |-> type, parser |-> parser, data |-> data]

toLowerCase(ext) == IF ext = "CSV" THEN "csv" ELSE ext

(* file.name.toLowerCase().endsWith('.csv') *)
NameEndsWithCsv(name) == toLowerCase(name[2]) = "csv"

(* file.type.includes('csv') *)
TypeIncludesCsv(type) == type \in {"text/csv", "application/csv"}

(* Date texts of the ingestion inputs. *)
GarbageText == <<2024, 13, 1, 0>>

T0 == <<2024, 1, 10, 8>>

T1 == <<2024, 1, 12, 6>>

T2 == <<2024, 1, 14, 9, Comma, 5>>

UiRows ==
    {RawRow(id, c, a, <<>>, "A", "x") :
        id \in {"", "r1"}, c \in {<<>>, GarbageText, T1}, a \in {T0, T2}}
    \cup
    {RawRow("r1", T1, a, <<>>, "A", "x") : a \in {<<>>, GarbageText}}
    \cup
    {RawRow("r2", GarbageText, T2, T0, "", "")}

(* Accepted and rejected names and types with every parser outcome. *)
VariantFiles ==
    {File(nt[1], nt[2], p, d) :
        nt \in {<<<<"a", "csv">>, "text/csv">>, <<<<"C", "CSV">>, "application/vnd.ms-excel">>,
                <<<<"b", "txt">>, "">>, <<<<"b", "txt">>, "text/plain">>},
        p \in {"ok", "rowErrors", "readError"},
        d \in {<<>>, <<RawRow("r1", T1, T2, <<>>, "A", "x")>>}}

UiFiles ==
    {File(<<"a", "csv">>, "text/csv", "ok", d) : d \in SeqsUpTo(UiRows, MaxRows)}
    \cup VariantFiles

(* Inputs of the histogram analysis: one creation date and action dates    *)
(* 0, 0, 1, 2, 7, 14, 15, 60, 61, 151, 365, 366 and 545 full days later,   *)
(* and one action date before the creation date.                           *)
HistCreated == <<2024, 1, 2, 0>>

HistActions ==
    {<<2024, 1, 1, 0>>, <<2024, 1, 2, 0>>, <<2024, 1, 2, 23>>, <<2024, 1, 3, 0>>,
     <<2024, 1, 4, 0>>, <<2024, 1, 9, 0>>, <<2024, 1, 16, 0>>, <<2024, 1, 17, 0>>,
     <<2024, 3, 2, 0>>, <<2024, 3, 3, 0>>, <<2024, 6, 1, 0>>, <<2025, 1, 1, 0>>,
     <<2025, 1, 2, 0>>, <<2025, 6, 30, 0>>}

HistFiles ==
    {File(<<"h", "csv">>, "text/csv", "ok", d) :
        d \in SeqsUpTo({RawRow("r1", HistCreated, a, <<>>, "A", "x") : a \in HistActions},
                       MaxHistRows)}

(* Inputs of the statistics analysis: durations of 1 to 4 days, and        *)
(* registration dates before the action, after it by 5 hours, after it by  *)
(* 2 days, and absent.                                                     *)
StatCreated == <<2024, 2, 27, 10>>

StatRows ==
    {RawRow("r1", StatCreated, <<2024, 2, 28, 10>>, StatCreated, "A", "x"),
     RawRow("r2", StatCreated, <<2024, 2, 29, 10>>, StatCreated, "A", "x"),
     RawRow("r3", StatCreated, <<2024, 3, 1, 10>>, StatCreated, "A", "x"),
     RawRow("r4", StatCreated, <<2024, 3, 2, 12>>, StatCreated, "A", "x"),
     RawRow("r5", StatCreated, <<2024, 2, 28, 10>>, <<2024, 2, 28, 15>>, "A", "x"),
     RawRow("r6", StatCreated, <<2024, 2, 28, 10>>, <<2024, 3, 1, 10>>, "A", "x"),
     RawRow("r7", StatCreated, <<2024, 2, 28, 10>>, <<>>, "A", "x")}

StatFiles ==
    {File(<<"s", "csv">>, "text/csv", "ok", d) : d \in SeqsUpTo(StatRows, MaxStatRows)}

(* Inputs of the grouped views: creation dates in two months or            *)
(* unparseable, durations of 2, 4 and 10 days or none, three staff values. *)
GroupDates ==
    {<<<<2024, 1, 30, 9>>, <<2024, 2, 1, 9>>>>,
     <<<<2024, 1, 30, 9>>, <<2024, 2, 3, 10>>>>,
     <<<<2024, 2, 5, 0>>, <<2024, 2, 15, 0>>>>,
     <<<<2024, 2, 5, 0>>, <<2024, 2, 4, 0>>>>,
     <<GarbageText, <<2024, 2, 4, 0>>>>}

GroupRows ==
    {RawRow("r1", ca[1], ca[2], <<>>, staff, "x") :
        ca \in GroupDates, staff \in {"", "A", "B"}}

GroupFiles ==
    {File(<<"g", "csv">>, "text/csv", "ok", d) : d \in SeqsUpTo(GroupRows, MaxGroupRows)}

(* Inputs of the action view: rows that differ in ACTION only, which is    *)
(* blank, one of two ordinary names, or the text __proto__.                *)
ActionRows ==
    {RawRow("r1", T0, T1, <<>>, "A", act) : act \in {"", "x", "y", "__proto__"}}

ActionFiles ==
    {File(<<"t", "csv">>, "text/csv", "ok", d) : d \in SeqsUpTo(ActionRows, MaxActionRows)}

----------------------------------------------------------------------------
(* Component state and handlers.                                           *)

(* The error state: null, or a message identified by its kind and the file *)
(* name or MIME type interpolated into it.                                 *)
NoError == [kind |-> "none", name |-> <<>>, type |-> ""]

Err(kind, name, type) == [kind |-> kind, name |-> name, type |-> type]

(* ORDSComponent.  It is rendered by ReactDOM.render of React 17, which    *)
(* renders after every setState made outside an event handler, so each     *)
(* setState of fetchData is a step.                                        *)

(* The responses fetch can resolve with: a status and a body that is not   *)
(* JSON (Null) or a JSON array of up to MaxOrdsItems items.                *)
OrdsStatuses == {200, 404, 500}

OrdsResponses ==
    {[rejected |-> FALSE, status |-> st, body |-> b] :
        st \in OrdsStatuses,
        b \in {Null} \cup {Some(v) : v \in SeqsUpTo({0, 1}, MaxOrdsItems)}}

(* How a fetch that rejects settles. *)
OrdsRejected == [rejected |-> TRUE, status |-> 0, body |-> Null]

(* response.ok *)
ResponseOk(response) == response.status \in 200..299

(* The state after the first render and the call of fetchData. *)
OrdsMounted ==
    [data |-> Null, loading |-> TRUE, error |-> Null,
     pc |-> "fetch", response |-> Null]

(* await fetch(...) rejects: catch, setError. *)
fetchRejects ==
    /\ ords.pc = "fetch"
    /\ ords' = [ords EXCEPT !.response = Some(OrdsRejected),
                            !.error = Some("TypeError"),
                            !.pc = "finally"]
    /\ UNCHANGED <<parsedData, fileName, loading, error, inflight, memo, pastIngest>>

(* await fetch(...) resolves; a response that is not ok is thrown on,      *)
(* otherwise response.json() is awaited.                                   *)
fetchResolvesUnchecked ==
    /\ ords.pc = "fetch"
    /\ \E response \in OrdsResponses :
          ords' = [ords EXCEPT !.response = Some(response), !.pc = "json"]
    /\ UNCHANGED <<parsedData, fileName, loading, error, inflight, memo, pastIngest>>

fetchResolves ==
    /\ ords.pc = "fetch"
    /\ \E response \in OrdsResponses :
          IF ~ResponseOk(response)
          THEN ords' = [ords EXCEPT !.response = Some(response),
                                    !.error = Some("Error"),
                                    !.pc = "finally"]
          ELSE ords' = [ords EXCEPT !.response = Some(response), !.pc = "json"]
    /\ UNCHANGED <<parsedData, fileName, loading, error, inflight, memo, pastIngest>>

(* await response.json() resolves: setData(result). *)
jsonResolves ==
    /\ ords.pc = "json"
    /\ ords.response[1].body # Null
    /\ ords' = [ords EXCEPT !.data = Some(ords.response[1].body[1]),
                            !.pc = "finally"]
    /\ UNCHANGED <<parsedData, fileName, loading, error, inflight, memo, pastIngest>>

(* await response.json() rejects: catch, setError. *)
jsonRejects ==
    /\ ords.pc = "json"
    /\ ords.response[1].body = Null
    /\ ords' = [ords EXCEPT !.error = Some("SyntaxError"), !.pc = "finally"]
    /\ UNCHANGED <<parsedData, fileName, loading, error, inflight, memo, pastIngest>>

(* finally: setLoading(false). *)
fetchFinally ==
    /\ ords.pc = "finally"
    /\ ords' = [ords EXCEPT !.loading = FALSE, !.pc = "done"]
    /\ UNCHANGED <<parsedData, fileName, loading, error, inflight, memo, pastIngest>>

(* What ORDSComponent renders. *)
OrdsView ==
    IF ords.loading THEN "Loading..."
    ELSE IF ords.error # Null THEN "Error"
    ELSE "ORDS Data"

(* What the hooks hold after the first render, with parsedData = []. *)
EmptyViews ==
    [monthlyCreations             |-> <<>>,
     durationStats                |-> ZeroStats,
     durationHistogramData        |-> <<>>,
     staffActivity                |-> [durations |-> <<>>, counts |-> <<>>],
     actionTypeCounts             |-> <<>>,
     registrationToActionDuration |-> ZeroRegStats]

Init ==
    /\ parsedData = <<>>
    /\ fileName = <<>>
    /\ loading = FALSE
    /\ error = NoError
    /\ inflight = <<>>
    /\ memo = EmptyViews
    /\ ords = OrdsMounted
    /\ pastIngest = <<>>

(* The component state an ingestion leaves. *)
Outcome == [parsedData |-> parsedData, fileName |-> fileName,
            loading |-> loading, error |-> error]

(* The values of the six useMemo hooks for the current parsedData. *)
Views ==
    [monthlyCreations             |-> monthlyCreations,
     durationStats                |-> durationStats,
     durationHistogramData        |-> durationHistogramData,
     staffActivity                |-> staffActivity,
     actionTypeCounts             |-> actionTypeCounts,
     registrationToActionDuration |-> registrationToActionDuration]

(* History: no ingestion recorded yet. *)
Armed == <<[file |-> <<>>, first |-> <<>>, cleared |-> FALSE, second |-> <<>>]>>

(* History kept when a callback of the parse of file has run: an armed     *)
(* history may record this ingestion, a history that holds an ingestion of *)
(* the same file may record this one as the later ingestion.               *)
Track(file) ==
    LET left == <<[state |-> Outcome', views |-> Views']>> IN
    IF pastIngest = <<>> THEN UNCHANGED pastIngest
    ELSE IF pastIngest = Armed
    THEN pastIngest' \in {pastIngest,
                          <<[file |-> <<file>>, first |-> left,
                             cleared |-> FALSE, second |-> <<>>]>>}
    ELSE IF pastIngest[1].file = <<file>> /\ pastIngest[1].second = <<>>
    THEN pastIngest' \in {pastIngest,
                          <<[pastIngest[1] EXCEPT !.second = left]>>}
    ELSE UNCHANGED pastIngest

(* History kept when Clear Data is invoked. *)
TrackClear ==
    IF pastIngest # <<>> /\ pastIngest[1].first # <<>> /\ pastIngest[1].second = <<>>
    THEN pastIngest' = <<[pastIngest[1] EXCEPT !.cleared = TRUE]>>
    ELSE UNCHANGED pastIngest

(* parseCsvFile up to the call of Papa.parse, which reads the file         *)
(* asynchronously.                                                         *)
parseCsvFileKeepName(file) ==
    /\ loading' = TRUE
    /\ error' = NoError
    /\ parsedData' = <<>>
    /\ UNCHANGED fileName
    /\ inflight' = Append(inflight, file)

parseCsvFileKeepData(file) ==
    /\ loading' = TRUE
    /\ error' = NoError
    /\ UNCHANGED parsedData
    /\ fileName' = file.name
    /\ inflight' = Append(inflight, file)

parseCsvFile(file) ==
    /\ loading' = TRUE
    /\ error' = NoError
    /\ parsedData' = <<>>
    /\ fileName' = file.name
    /\ inflight' = Append(inflight, file)

(* The file input is disabled while loading. *)
InputAlwaysEnabled == TRUE

InputEnabled == ~loading

(* The Clear Data button is rendered when fileName || loading and is       *)
(* disabled while loading.                                                 *)
ClearEnabled == (fileName # <<>> \/ loading) /\ ~loading

handleFileChangeKeepData(file) ==
    /\ InputEnabled
    /\ IF file.type # "" /\ ~TypeIncludesCsv(file.type) /\ ~NameEndsWithCsv(file.name)
       THEN /\ error' = Err("invalidType", <<>>, file.type)
            /\ fileName' = file.name
            /\ UNCHANGED parsedData
            /\ loading' = FALSE
            /\ UNCHANGED inflight
       ELSE parseCsvFile(file)
    /\ UNCHANGED <<memo, ords, pastIngest>>

handleFileChange(file) ==
    /\ InputEnabled
    /\ IF file.type # "" /\ ~TypeIncludesCsv(file.type) /\ ~NameEndsWithCsv(file.name)
       THEN /\ error' = Err("invalidType", <<>>, file.type)
            /\ fileName' = file.name
            /\ parsedData' = <<>>
            /\ loading' = FALSE
            /\ UNCHANGED inflight
       ELSE parseCsvFile(file)
    /\ UNCHANGED <<memo, ords, pastIngest>>

(* handleFileChange with an empty file list. *)
handleFileChangeNone ==
    /\ InputEnabled
    /\ error' = NoError
    /\ fileName' = <<>>
    /\ parsedData' = <<>>
    /\ loading' = FALSE
    /\ UNCHANGED <<inflight, memo, ords, pastIngest>>

(* The sequence without its i-th element. *)
Without(seq, i) == SubSeq(seq, 1, i - 1) \o SubSeq(seq, i + 1, Len(seq))

(* results.errors.length > 0 *)
HasParseErrorsNever(file) == FALSE

HasParseErrors(file) == file.parser = "rowErrors"

(* The error state after a parse without parser errors. *)
ZeroRowsErrorUnlessEmpty(processed, data, name) ==
    IF Len(processed) = 0 /\ Len(data) > 0
    THEN Err("noValidRows", name, "")
    ELSE NoError

ZeroRowsErrorIfAnyDropped(processed, data, name) ==
    IF Len(processed) < Len(data)
    THEN Err("noValidRows", name, "")
    ELSE IF Len(processed) = 0 /\ Len(data) = 0
    THEN Err("emptyFile", name, "")
    ELSE NoError

ZeroRowsError(processed, data, name) ==
    IF Len(processed) = 0 /\ Len(data) > 0
    THEN Err("noValidRows", name, "")
    ELSE IF Len(processed) = 0 /\ Len(data) = 0
    THEN Err("emptyFile", name, "")
    ELSE NoError

(* Papa.parse's complete callback, of any pending parse. *)
complete ==
    \E i \in 1..Len(inflight) :
        /\ inflight[i].parser \in {"ok", "rowErrors"}
        /\ LET file == inflight[i]
               processed == Processed(file.data) IN
           IF HasParseErrors(file)
           THEN /\ error' = Err("parseErrors", file.name, "")
                /\ parsedData' = <<>>
           ELSE /\ parsedData' = processed
                /\ error' = ZeroRowsError(processed, file.data, file.name)
        /\ loading' = FALSE
        /\ inflight' = Without(inflight, i)
        /\ UNCHANGED <<fileName, memo, ords>>
        /\ Track(inflight[i])

(* Papa.parse's error callback, of any pending parse. *)
parseErrorKeepLoading ==
    \E i \in 1..Len(inflight) :
        /\ inflight[i].parser = "readError"
        /\ error' = Err("parseFailed", inflight[i].name, "")
        /\ parsedData' = <<>>
        /\ inflight' = Without(inflight, i)
        /\ UNCHANGED <<loading, fileName, memo, ords>>
        /\ Track(inflight[i])

parseError ==
    \E i \in 1..Len(inflight) :
        /\ inflight[i].parser = "readError"
        /\ error' = Err("parseFailed", inflight[i].name, "")
        /\ parsedData' = <<>>
        /\ loading' = FALSE
        /\ inflight' = Without(inflight, i)
        /\ UNCHANGED <<fileName, memo, ords>>
        /\ Track(inflight[i])

handleClearDataKeepError ==
    /\ ClearEnabled
    /\ parsedData' = <<>>
    /\ fileName' = <<>>
    /\ loading' = FALSE
    /\ UNCHANGED <<error, inflight, memo, ords>>
    /\ TrackClear

handleClearData ==
    /\ ClearEnabled
    /\ parsedData' = <<>>
    /\ fileName' = <<>>
    /\ error' = NoError
    /\ loading' = FALSE
    /\ UNCHANGED <<inflight, memo, ords>>
    /\ TrackClear

(* A render whose durationStats hook sorted parsedData itself, by          *)
(* durationDays with null as 0, instead of the array map and filter made.  *)
renderSortingInput ==
    /\ memo' = Views
    /\ parsedData' =
          LET sorted == SortByKey([i \in 1..Len(parsedData) |->
                           [k |-> IF parsedData[i].durationDays = Null THEN <<0, 1>>
                                  ELSE <<parsedData[i].durationDays[1], 1>>,
                            v |-> parsedData[i]]])
          IN  [i \in 1..Len(parsedData) |-> sorted[i].v]
    /\ UNCHANGED <<fileName, loading, error, inflight, ords, pastIngest>>

(* A render: the useMemo hooks recompute their views from parsedData.  The *)
(* in-place operations of the hooks (sort, assignment to sortedBins[0])    *)
(* act on arrays that map, filter and Object.entries created, and the      *)
(* histogram only reads durationStats.durations.                           *)
render ==
    /\ memo' = Views
    /\ UNCHANGED <<parsedData, fileName, loading, error, inflight, ords, pastIngest>>

SelectFile == \E file \in UiFiles : handleFileChange(file)

Next ==
    \/ SelectFile
    \/ handleFileChangeNone
    \/ complete
    \/ parseError
    \/ handleClearData

Spec == Init /\ [][Next]_vars

(* The component right after parseCsvFile(file) was called on the initial  *)
(* state.                                                                  *)
Parsing(file) ==
    /\ loading = TRUE
    /\ error = NoError
    /\ parsedData = <<>>
    /\ fileName = file.name
    /\ inflight = <<file>>
    /\ memo = EmptyViews
    /\ ords = OrdsMounted
    /\ pastIngest = <<>>

(* Ingestion and analysis of one file of the histogram inputs. *)
HistInit == \E file \in HistFiles : Parsing(file)

HistNext ==
    \/ complete
    \/ handleClearData

HistSpec == HistInit /\ [][HistNext]_vars

(* Ingestion and analysis of one file of the statistics inputs. *)
StatInit == \E file \in StatFiles : Parsing(file)

StatNext ==
    \/ complete
    \/ handleClearData

StatSpec == StatInit /\ [][StatNext]_vars

(* Ingestion and analysis of one file of the grouped-view inputs. *)
GroupInit == \E file \in GroupFiles : Parsing(file)

GroupNext ==
    \/ complete
    \/ handleClearData

GroupSpec == GroupInit /\ [][GroupNext]_vars

(* Files of one and of two rows with every parser outcome, and the        *)
(* accepted and rejected names and types.                                  *)
LiveFiles ==
    {File(<<"a", "csv">>, "text/csv", p, d) :
        p \in {"ok", "rowErrors", "readError"},
        d \in SeqsUpTo(UiRows, 1)
               \cup {<<row, RawRow("r1", T1, T2, <<>>, "A", "x")>> : row \in UiRows}}
    \cup VariantFiles

SelectLiveFile == \E file \in LiveFiles : handleFileChange(file)

LiveNext ==
    \/ SelectLiveFile
    \/ handleFileChangeNone
    \/ complete
    \/ parseError
    \/ handleClearData

(* The component when Papa.parse calls back for every parse it is given:   *)
(* a pending callback stays enabled until it runs, since nothing else can  *)
(* happen while loading.                                                   *)
FairSpec == Init /\ [][LiveNext]_vars /\ WF_vars(complete) /\ WF_vars(parseError)

(* ORDSComponent mounted once, with a fetch that settles and a body that   *)
(* is read to its end.                                                     *)
OrdsNext ==
    \/ fetchRejects
    \/ fetchResolves
    \/ jsonResolves
    \/ jsonRejects
    \/ fetchFinally

OrdsSpec == Init /\ [][OrdsNext]_vars /\ WF_vars(OrdsNext)

(* Ingestion and analysis of one file of the action-view inputs. *)
ActionInit == \E file \in ActionFiles : Parsing(file)

ActionNext ==
    \/ complete
    \/ handleClearData

ActionSpec == ActionInit /\ [][ActionNext]_vars

(* The files of at most one row: accepted and rejected names and types,    *)
(* every parser outcome, and files of the same name with different rows.   *)
ReloadFiles ==
    {File(<<"a", "csv">>, "text/csv", "ok", d) : d \in SeqsUpTo(UiRows, 1)}
    \cup VariantFiles

(* The component used again and again, with the history of one ingestion   *)
(* and of a later ingestion of the same file.                              *)
ReloadInit ==
    /\ parsedData = <<>>
    /\ fileName = <<>>
    /\ loading = FALSE
    /\ error = NoError
    /\ inflight = <<>>
    /\ memo = EmptyViews
    /\ ords = OrdsMounted
    /\ pastIngest = Armed

SelectReloadFile == \E file \in ReloadFiles : handleFileChange(file)

ReloadNext ==
    \/ SelectReloadFile
    \/ handleFileChangeNone
    \/ complete
    \/ parseError
    \/ handleClearData

ReloadSpec == ReloadInit /\ [][ReloadNext]_vars

(* Ingestion of one file of the statistics inputs, with the renders that   *)
(* recompute the views.                                                    *)
RenderInit == \E file \in StatFiles : Parsing(file)

RenderNext ==
    \/ complete
    \/ render
    \/ handleClearData

RenderSpec == RenderInit /\ [][RenderNext]_vars

----------------------------------------------------------------------------
(* Properties.                                                             *)

Rows == 1..Len(parsedData)

HasDuration(i) == parsedData[i].durationDays # Null

(* C1: after a successful ingestion every record retained in parsedData    *)
(* has a non-empty ID, a non-null parsed createdAt and a non-null parsed   *)
(* actionAt; a row whose CREATED_DATE does not parse is not retained.      *)
C1_RetainedRecordsHaveParsedDates ==
    \A i \in Rows :
        /\ parsedData[i].ID # ""
        /\ parsedData[i].createdDateValid # Null
        /\ parsedData[i].actionDateValid # Null

RegLaterThanAction(row) ==
    LET regDate == parseDate(row.REGISTRATION_DATE) IN
    /\ regDate # Null
    /\ row.actionDateValid # Null
    /\ regDate[1] > row.actionDateValid[1]

(* C2: a retained record whose registration timestamp is strictly later    *)
(* than its actionAt, by any amount, contributes no entry to the set over  *)
(* which registrationToActionStats is computed.  (Records of the inputs    *)
(* that share an ID are equal.)                                            *)
C2_LaterRegistrationExcluded ==
    \A i \in Rows :
        RegLaterThanAction(parsedData[i]) =>
            \A k \in 1..Len(registrationToActionDuration.data) :
                registrationToActionDuration.data[k].id # parsedData[i].ID

ReportedStaffCount(staff) ==
    LET counts == staffActivity.counts IN
    IF \E k \in 1..Len(counts) : counts[k].staff = staff
    THEN counts[CHOOSE k \in 1..Len(counts) : counts[k].staff = staff].count
    ELSE 0

(* C3: for every staff value S the count reported for S in                 *)
(* staffActionCounts is the number of retained records whose STAFF is S,   *)
(* whether or not they have a durationDays.                                *)
C3_StaffCountsAreRecordCounts ==
    \A i \in Rows :
        parsedData[i].STAFF # "" =>
            ReportedStaffCount(parsedData[i].STAFF)
                = Cardinality({j \in Rows : parsedData[j].STAFF = parsedData[i].STAFF})

AllDurationsIn01 ==
    /\ \E i \in Rows : HasDuration(i)
    /\ \A i \in Rows : HasDuration(i) => parsedData[i].durationDays[1] \in {0, 1}

(* C4 as stated: when every duration is 0 or 1, durationHistogram is the   *)
(* single bucket "0-1 day(s)" whose count is the total row count.          *)
C4_CountIsRowCount ==
    AllDurationsIn01 =>
        durationHistogramData
            = <<[range |-> Label("0-1 day(s)", <<>>), count |-> Len(parsedData)]>>

(* C4, amended: when every duration is 0 or 1 and one exists,              *)
(* durationHistogram is the single bucket "0-1 day(s)" whose count is the  *)
(* number of records that have a duration, both when all durations are 0   *)
(* and when some duration is 1.                                            *)
C4_CountIsDurationCount ==
    AllDurationsIn01 =>
        durationHistogramData
            = <<[range |-> Label("0-1 day(s)", <<>>),
                 count |-> Cardinality({i \in Rows : HasDuration(i)})]>>

C4_Witness ==
    /\ AllDurationsIn01
    /\ \E i, j \in Rows : /\ HasDuration(i) /\ parsedData[i].durationDays[1] = 0
                          /\ HasDuration(j) /\ parsedData[j].durationDays[1] = 1

ClaimedWidth(maxDuration) ==
    IF maxDuration <= 14 THEN 1
    ELSE IF maxDuration <= 60 THEN 7
    ELSE IF maxDuration <= 365 THEN 30
    ELSE 90

(* The inclusive day range a bucket label names. *)
LabelFrom(label) ==
    IF label.fmt = "%d day(s)" THEN label.args[1]
    ELSE IF label.fmt = "%d-%d days" THEN label.args[1]
    ELSE IF label.fmt = "Week %d (~%d-%dd)" THEN label.args[2]
    ELSE 0

LabelTo(label) ==
    IF label.fmt = "%d day(s)" THEN label.args[1]
    ELSE IF label.fmt = "%d-%d days" THEN label.args[2]
    ELSE IF label.fmt = "Week %d (~%d-%dd)" THEN label.args[3]
    ELSE 1

(* C5: the bucket width depends on max(durations) only: 1 up to 14, 7 from *)
(* 15 to 60, 30 from 61 to 365, 90 above; with max > 1 every bucket label  *)
(* spans that many days.                                                   *)
C5_WidthFromMax ==
    durationStats.durations # <<>> =>
        LET w == ClaimedWidth(durationStats.max) IN
        /\ BinSize(durationStats.max) = w
        /\ durationStats.max > 1 =>
              \A k \in 1..Len(durationHistogramData) :
                   LabelTo(durationHistogramData[k].range)
                     - LabelFrom(durationHistogramData[k].range) + 1 = w

C5_Witness ==
    /\ durationStats.max = 365
    /\ Len(durationHistogramData) = 13
    /\ durationHistogramData[13].range = Label("%d-%d days", <<360, 389>>)

(* C6: with max > 1 and width w, durationHistogram has floor(max / w) + 1  *)
(* buckets in ascending order, the i-th (from 0) covering the days         *)
(* i*w .. i*w + w - 1, each with the number of durations in its range,     *)
(* empty buckets included with count 0.                                    *)
C6_ContiguousBuckets ==
    (durationStats.durations # <<>> /\ durationStats.max > 1) =>
        LET w == ClaimedWidth(durationStats.max)
            h == durationHistogramData IN
        /\ Len(h) = (durationStats.max \div w) + 1
        /\ \A k \in 1..Len(h) :
              /\ LabelFrom(h[k].range) = (k - 1) * w
              /\ LabelTo(h[k].range) = (k - 1) * w + w - 1
              /\ h[k].count
                   = Cardinality({i \in Rows :
                        /\ HasDuration(i)
                        /\ parsedData[i].durationDays[1] >= (k - 1) * w
                        /\ parsedData[i].durationDays[1] <= (k - 1) * w + w - 1})

C6_Witness ==
    /\ durationStats.max > 14
    /\ Len(durationHistogramData) >= 3
    /\ \E k \in 1..Len(durationHistogramData) : durationHistogramData[k].count = 0
    /\ durationHistogramData[1].count = 1

(* C7: the counts of all monthlySeries entries sum to the number of        *)
(* retained records whose createdAt is non-null.                           *)
C7_MonthlyCountsSum ==
    Sum([k \in 1..Len(monthlyCreations) |-> monthlyCreations[k].count])
        = Cardinality({i \in Rows : parsedData[i].createdDateValid # Null})

C7_Witness ==
    /\ Len(parsedData) = 3
    /\ monthlyCreations = <<[month |-> 202401, count |-> 2]>>
    /\ \E i \in Rows : parsedData[i].createdDateValid = Null

(* The k-th smallest element (k from 1) of a non-empty sequence. *)
KthSmallest(xs, k) ==
    CHOOSE v \in {xs[i] : i \in 1..Len(xs)} :
        /\ Cardinality({i \in 1..Len(xs) : xs[i] < v}) < k
        /\ k <= Cardinality({i \in 1..Len(xs) : xs[i] <= v})

IsMedianOf(median, xs) ==
    LET n == Len(xs) IN
    IF n % 2 = 1
    THEN median = <<KthSmallest(xs, (n + 1) \div 2), 1>>
    ELSE median[1] * 2
            = (KthSmallest(xs, n \div 2) + KthSmallest(xs, (n \div 2) + 1)) * median[2]

(* C8: durationStats.median is the middle one of the valid durations in    *)
(* ascending order when their count is odd and the mean of the two middle  *)
(* ones when it is even ([1,2,3] gives 2, [1,2,3,4] gives 2.5), and        *)
(* registrationToActionStats.median follows the same rule over its own     *)
(* day differences.                                                        *)
C8_MedianRule ==
    LET regDays == [k \in 1..Len(registrationToActionDuration.data) |->
                       registrationToActionDuration.data[k].regToActionDays] IN
    /\ durationStats.durations # <<>> =>
          IsMedianOf(durationStats.median, durationStats.durations)
    /\ durationStats.durations = <<1, 2, 3>> => durationStats.median = <<2, 1>>
    /\ durationStats.durations = <<1, 2, 3, 4>> => durationStats.median = <<5, 2>>
    /\ regDays # <<>> => IsMedianOf(registrationToActionDuration.median, regDays)

C8_Witness ==
    /\ durationStats.durations = <<1, 2, 3, 4>>
    /\ durationStats.median = <<5, 2>>
    /\ parsedData[1].durationDays = <<4>>

(* C9: for the empty record set every aggregation view has its empty or    *)
(* zero form.                                                              *)
C9_EmptySetViews ==
    parsedData = <<>> =>
        /\ monthlyCreations = <<>>
        /\ durationStats = [average |-> <<0, 1>>, median |-> <<0, 1>>, min |-> 0,
                            max |-> 0, durations |-> <<>>]
        /\ durationHistogramData = <<>>
        /\ staffActivity.durations = <<>>
        /\ staffActivity.counts = <<>>
        /\ actionTypeCounts = <<>>
        /\ registrationToActionDuration.average = <<0, 1>>
        /\ registrationToActionDuration.median = <<0, 1>>

C9_Witness ==
    /\ parsedData = <<>>
    /\ ~loading
    /\ error.kind = "noValidRows"

(* C10: for every normalized record durationDays and durationHours are     *)
(* both null or both non-negative, and they are non-null exactly when      *)
(* createdAt and actionAt are both non-null with actionAt >= createdAt.    *)
C10_DurationsDefinedTogether ==
    \A i \in Rows :
        LET r == parsedData[i] IN
        /\ (r.durationDays = Null) <=> (r.durationHours = Null)
        /\ r.durationDays # Null => r.durationDays[1] >= 0
        /\ r.durationHours # Null => r.durationHours[1] >= 0
        /\ (r.durationDays # Null)
             <=> (/\ r.createdDateValid # Null
                  /\ r.actionDateValid # Null
                  /\ r.actionDateValid[1] >= r.createdDateValid[1])

C10_Witness ==
    /\ Len(parsedData) = 2
    /\ parsedData[1].durationDays = Null
    /\ parsedData[1].createdDateValid # Null
    /\ parsedData[1].actionDateValid # Null
    /\ parsedData[2].durationDays = <<2>>
    /\ parsedData[2].durationHours = <<51>>

(* The rows that enter the staff views: STAFF and a non-negative duration. *)
StaffRows(staff) ==
    {i \in Rows : /\ parsedData[i].STAFF = staff
                  /\ HasDuration(i)
                  /\ parsedData[i].durationDays[1] >= 0}

StaffTotal(staff) ==
    Sum([i \in Rows |-> IF i \in StaffRows(staff)
                        THEN parsedData[i].durationDays[1] ELSE 0])

(* C11: staffDurationAverages is in non-increasing order of                *)
(* avgDurationDays and staffActionCounts in non-increasing order of count, *)
(* and a staff's average is the sum of that staff's valid durationDays     *)
(* divided by their number.                                                *)
C11_StaffViewsSortedDescending ==
    LET durations == staffActivity.durations
        counts == staffActivity.counts IN
    /\ \A k \in 1..(Len(durations) - 1) :
          FracLeq(durations[k + 1].avgDurationDays, durations[k].avgDurationDays)
    /\ \A k \in 1..(Len(counts) - 1) : counts[k + 1].count <= counts[k].count
    /\ \A k \in 1..Len(durations) :
          /\ StaffRows(durations[k].staff) # {}
          /\ durations[k].avgDurationDays[1] * Cardinality(StaffRows(durations[k].staff))
                = durations[k].avgDurationDays[2] * StaffTotal(durations[k].staff)
    /\ \A i \in Rows :
          StaffRows(parsedData[i].STAFF) # {} /\ parsedData[i].STAFF # "" =>
              Cardinality({k \in 1..Len(durations) :
                             durations[k].staff = parsedData[i].STAFF}) = 1

(* Staff A with durations 2 and 4 ranks after staff B with duration 10. *)
C11_Witness ==
    /\ Len(parsedData) = 3
    /\ {parsedData[i].durationDays[1] : i \in StaffRows("A")} = {2, 4}
    /\ staffActivity.durations
         = <<[staff |-> "B", avgDurationDays |-> <<10, 1>>],
             [staff |-> "A", avgDurationDays |-> <<3, 1>>]>>
    /\ staffActivity.counts
         = <<[staff |-> "A", count |-> 2], [staff |-> "B", count |-> 1]>>
(* C12: the state and every aggregation view after a completed ingestion   *)
(* depend only on the ingested file: a later ingestion of a file leaves    *)
(* what an earlier ingestion of the same file left, whatever selections,   *)
(* rejections, failures and clears came before or in between.              *)
C12_IngestionDependsOnlyOnFile ==
    pastIngest # <<>> /\ pastIngest[1].second # <<>> =>
        pastIngest[1].second = pastIngest[1].first

(* A file with a retained row was ingested, cleared and ingested again. *)
C12_Witness ==
    /\ pastIngest # <<>>
    /\ pastIngest[1].second # <<>>
    /\ pastIngest[1].cleared
    /\ Len(pastIngest[1].first[1].state.parsedData) = 1
    /\ pastIngest[1].first[1].views.monthlyCreations # <<>>
    /\ Outcome = pastIngest[1].second[1].state
    /\ Views = pastIngest[1].second[1].views
(* What the component renders. *)
ShowsLoading == loading

ShowsError == error # NoError

ShowsCharts == ~loading /\ error = NoError /\ Len(parsedData) > 0

ShowsPrompt == ~loading /\ error = NoError /\ Len(parsedData) = 0

UiIdle == ~loading /\ error = NoError /\ parsedData = <<>>

UiLoading == loading /\ error = NoError /\ parsedData = <<>>

UiReady == ~loading /\ error = NoError /\ parsedData # <<>>

UiError == ~loading /\ error # NoError /\ parsedData = <<>>

(* C13: (loading, error, parsedData) is always exactly one of idle,        *)
(* loading, ready and error, so an error never comes with data or with the *)
(* loading flag, and exactly one of the loading message, the error         *)
(* message, the charts and the initial prompt is rendered.                 *)
C13_FourUiStates ==
    /\ Cardinality({k \in 1..4 : <<UiIdle, UiLoading, UiReady, UiError>>[k]}) = 1
    /\ Cardinality({k \in 1..4 :
                      <<ShowsLoading, ShowsError, ShowsCharts, ShowsPrompt>>[k]}) = 1
    /\ (UiIdle <=> ShowsPrompt)
    /\ (UiLoading <=> ShowsLoading)
    /\ (UiReady <=> ShowsCharts)
    /\ (UiError <=> ShowsError)

(* A wrong-type file was rejected: only the error message is rendered. *)
C13_Witness ==
    /\ UiError
    /\ error.kind = "invalidType"
    /\ fileName = <<"b", "txt">>
    /\ ShowsError /\ ~ShowsCharts /\ ~ShowsLoading /\ ~ShowsPrompt

(* C14: at most one parse is in flight; while loading neither a file       *)
(* selection nor Clear Data is accepted, so the state the pending parse's  *)
(* callback will find is the one its own parseCsvFile call set up.         *)
C14_OneParseInFlight ==
    /\ Len(inflight) <= 1
    /\ (loading <=> inflight # <<>>)
    /\ (loading => ~InputEnabled /\ ~ClearEnabled)
    /\ \A i \in 1..Len(inflight) :
          /\ fileName = inflight[i].name
          /\ parsedData = <<>>
          /\ error = NoError

C14_Witness ==
    /\ loading
    /\ Len(inflight) = 1
    /\ Len(inflight[1].data) = MaxRows
    /\ ~InputEnabled /\ ~ClearEnabled
(* The files whose pending parse this step ends. *)
Completed ==
    {inflight[i] : i \in {j \in 1..Len(inflight) : inflight' = Without(inflight, j)}}

(* C15: a parse that ends with parser-reported errors, or through the      *)
(* parser's error callback, leaves error non-null and parsedData empty,    *)
(* even if rows of that file parsed correctly.                             *)
C15_FailedParseRetainsNothing ==
    [][\A file \in Completed :
          file.parser \in {"rowErrors", "readError"} =>
              /\ error' # NoError
              /\ error'.kind \in {"parseErrors", "parseFailed"}
              /\ parsedData' = <<>>
              /\ ~loading']_vars

(* A file with a retainable row and parser errors was ingested and left    *)
(* the error state, and the component is in that state.                    *)
C15_Witness ==
    /\ pastIngest # <<>>
    /\ pastIngest[1].first # <<>>
    /\ pastIngest[1].file[1].parser = "rowErrors"
    /\ Processed(pastIngest[1].file[1].data) # <<>>
    /\ pastIngest[1].first[1].state.error.kind = "parseErrors"
    /\ pastIngest[1].first[1].state.parsedData = <<>>
    /\ Outcome = pastIngest[1].first[1].state

(* C16: idle has error null; a parse that succeeds with zero retained rows *)
(* ends in the error state with a kind that is not a parse-failure kind,   *)
(* and that kind differs between a file of zero raw rows and a file whose  *)
(* raw rows are all dropped.                                               *)
C16_OutcomesDistinguishable ==
    [][/\ fileName' = <<>> => error' = NoError
       /\ \A file \in Completed :
                 IF file.parser = "ok" /\ parsedData' = <<>>
                 THEN /\ ~loading'
                      /\ Len(file.data) = 0 => error'.kind = "emptyFile"
                      /\ Len(file.data) > 0 => error'.kind = "noValidRows"
                 ELSE IF file.parser = "ok"
                 THEN error' = NoError
                 ELSE error'.kind \in {"parseErrors", "parseFailed"}]_vars

(* Both zero-row outcomes happened: a file of one dropped row was ingested *)
(* and later ingested again, and the component is in that error state.     *)
C16_Witness ==
    /\ pastIngest # <<>>
    /\ pastIngest[1].second # <<>>
    /\ pastIngest[1].file[1].parser = "ok"
    /\ Len(pastIngest[1].file[1].data) = 1
    /\ pastIngest[1].first[1].state.error.kind = "noValidRows"
    /\ error.kind = "noValidRows"
    /\ UiError

(* C17 as stated: a selected file whose name does not end in .csv and      *)
(* whose MIME type does not contain 'csv' never starts a parse.            *)
C17_UnrecognizableFileNeverParsed ==
    \A i \in 1..Len(inflight) :
        NameEndsWithCsv(inflight[i].name) \/ TypeIncludesCsv(inflight[i].type)
(* The raw rows with non-empty ID, CREATED_DATE and ACTION_DATE. *)
Complete3(data) ==
    {k \in 1..Len(data) : /\ data[k].ID # ""
                          /\ data[k].CREATED_DATE # <<>>
                          /\ data[k].ACTION_DATE # <<>>}

(* The views count only the retained rows that have the field they need. *)
ViewsSkipRowsWithoutField ==
    /\ Sum([k \in 1..Len(monthlyCreations) |-> monthlyCreations[k].count])
          = Cardinality({i \in Rows : parsedData[i].createdDateValid # Null})
    /\ Len(durationStats.durations)
          = Cardinality({i \in Rows : /\ HasDuration(i)
                                      /\ parsedData[i].durationDays[1] >= 0})
    /\ \A k \in 1..Len(staffActivity.counts) : staffActivity.counts[k].staff # ""
    /\ Sum([k \in 1..Len(actionTypeCounts) |-> actionTypeCounts[k].value])
          = Cardinality({i \in Rows : parsedData[i].Action # ""})

(* C18: a parse without parser errors of a file with at least one row of   *)
(* non-empty ID, CREATED_DATE and ACTION_DATE ends ready with error null,  *)
(* whatever its other rows lack; a retained row with an unparseable date   *)
(* has the derived fields null, and in the ready state the views leave out *)
(* the rows without the field they need.                                   *)
C18_RowIssuesAreNotErrors ==
    /\ [][\A file \in Completed :
             file.parser = "ok" /\ Complete3(file.data) # {} =>
                 /\ error' = NoError
                 /\ ~loading'
                 /\ Len(parsedData') = Cardinality(Complete3(file.data))
                 /\ \A i \in 1..Len(parsedData') :
                       /\ parseDate(parsedData'[i].CREATED_DATE) = Null =>
                             /\ parsedData'[i].createdDateValid = Null
                             /\ parsedData'[i].durationDays = Null
                       /\ parseDate(parsedData'[i].ACTION_DATE) = Null =>
                             /\ parsedData'[i].actionDateValid = Null
                             /\ parsedData'[i].durationDays = Null]_vars
    /\ [](UiReady => ViewsSkipRowsWithoutField)

(* Ready with two retained rows: one whose CREATED_DATE does not parse and *)
(* that has neither STAFF nor ACTION, one complete.                        *)
C18_Witness ==
    /\ UiReady
    /\ Len(parsedData) = 2
    /\ \E i \in Rows : /\ parsedData[i].createdDateValid = Null
                        /\ parsedData[i].STAFF = ""
                        /\ parsedData[i].Action = ""
    /\ \E i \in Rows : HasDuration(i) /\ parsedData[i].STAFF = "A"
    /\ Len(monthlyCreations) = 1
    /\ Len(staffActivity.counts) = 1

(* A step of Clear Data or of a file selection without a file: not a parse *)
(* started or ended, not a file rejected.                                  *)
ClearOrCancelStep ==
    /\ inflight' = inflight
    /\ ~(fileName' # <<>> /\ error'.kind = "invalidType")

(* C19: Clear Data and a cancelled file picker leave exactly the initial   *)
(* idle state, with every view in its empty form and no error.             *)
C19_ClearRestoresInitialState ==
    [][ClearOrCancelStep =>
          /\ parsedData' = <<>>
          /\ fileName' = <<>>
          /\ error' = NoError
          /\ ~loading'
          /\ Views' = EmptyViews]_vars

(* Idle again after an ingestion that ended in an error was cleared. *)
C19_Witness ==
    /\ pastIngest # <<>>
    /\ pastIngest[1].cleared
    /\ pastIngest[1].second = <<>>
    /\ pastIngest[1].first[1].state.error # NoError
    /\ UiIdle
    /\ fileName = <<>>
    /\ Views = EmptyViews
(* A step that recomputes views: no parse ended and nothing cleared. *)
RenderStep == inflight' = inflight /\ fileName' = fileName

C21_ActionCountsPerValue ==
    /\ \A i \in Rows :
          parsedData[i].Action # "" =>
              /\ Cardinality({k \in 1..Len(actionTypeCounts) :
                                actionTypeCounts[k].name = parsedData[i].Action}) = 1
              /\ \A k \in 1..Len(actionTypeCounts) :
                    actionTypeCounts[k].name = parsedData[i].Action =>
                        actionTypeCounts[k].value
                            = Cardinality({j \in Rows :
                                  parsedData[j].Action = parsedData[i].Action})
    /\ \A k \in 1..Len(actionTypeCounts) :
          \E i \in Rows : /\ parsedData[i].Action # ""
                          /\ parsedData[i].Action = actionTypeCounts[k].name
    /\ \A k \in 1..(Len(actionTypeCounts) - 1) :
          actionTypeCounts[k + 1].value <= actionTypeCounts[k].value
(* C22: every parse that is started is followed by a state with loading    *)
(* false, provided the parser calls back, and the state reached on leaving *)
(* loading is ready or error, never idle and never loading again.          *)
C22_LoadingEnds ==
    /\ loading ~> ~loading
    /\ [][loading /\ ~loading' =>
             /\ inflight' = <<>>
             /\ \/ ~loading' /\ error' = NoError /\ parsedData' # <<>>
                \/ ~loading' /\ error' # NoError /\ parsedData' = <<>>]_vars

(* A read failure has ended a parse in the error state. *)
C22_Witness ==
    /\ inflight = <<>>
    /\ UiError
    /\ error.kind = "parseFailed"
    /\ fileName # <<>>
(* The retained records with a non-null, non-negative durationDays. *)
ValidRows ==
    {i \in Rows : HasDuration(i) /\ parsedData[i].durationDays[1] >= 0}

(* C23: durationStats.durations is the ascending multiset of exactly the   *)
(* non-null, non-negative durationDays of the retained records; when it is *)
(* non-empty, min is its first element, max its last, and median and       *)
(* average lie between them; when the set is non-empty without any valid   *)
(* duration, durationStats is all zeros with an empty sequence and the     *)
(* histogram is empty.                                                     *)
C23_DurationStatsOverValidDurations ==
    LET ds == durationStats.durations IN
    /\ Len(ds) = Cardinality(ValidRows)
    /\ \A k \in 1..(Len(ds) - 1) : ds[k] <= ds[k + 1]
    /\ \A i \in ValidRows :
          Cardinality({k \in 1..Len(ds) : ds[k] = parsedData[i].durationDays[1]})
              = Cardinality({j \in ValidRows :
                    parsedData[j].durationDays = parsedData[i].durationDays})
    /\ ds # <<>> =>
          /\ durationStats.min = ds[1]
          /\ durationStats.max = ds[Len(ds)]
          /\ FracLeq(<<durationStats.min, 1>>, durationStats.median)
          /\ FracLeq(durationStats.median, <<durationStats.max, 1>>)
          /\ FracLeq(<<durationStats.min, 1>>, durationStats.average)
          /\ FracLeq(durationStats.average, <<durationStats.max, 1>>)
    /\ parsedData # <<>> /\ ValidRows = {} =>
          /\ durationStats.average = <<0, 1>>
          /\ durationStats.median = <<0, 1>>
          /\ durationStats.min = 0
          /\ durationStats.max = 0
          /\ ds = <<>>
          /\ durationHistogramData = <<>>

(* Two records loaded in descending order of duration. *)
C23_Witness ==
    /\ Len(parsedData) = 2
    /\ parsedData[1].durationDays = <<7>>
    /\ parsedData[2].durationDays = <<1>>
    /\ durationStats.durations = <<1, 7>>
    /\ durationStats.min = 1
    /\ durationStats.max = 7
    /\ durationStats.average = <<4, 1>>
(* C24: whenever parsedData is non-empty it was produced from the file     *)
(* fileName names: data is shown only under a file name, a step that       *)
(* starts a parse empties parsedData and sets fileName to the new file's   *)
(* name, no step changes fileName and keeps data, and parsedData becomes   *)
(* non-empty only in the callback of the parse of the file fileName names, *)
(* as that file's processed rows.                                          *)
C24_DataBelongsToNamedFile ==
    /\ [](parsedData # <<>> => fileName # <<>>)
    /\ [][/\ Len(inflight') > Len(inflight) =>
                /\ parsedData' = <<>>
                /\ fileName' = inflight'[Len(inflight')].name
          /\ fileName' # fileName => parsedData' = <<>>
          /\ parsedData' # <<>> /\ parsedData' # parsedData =>
                \E file \in Completed :
                    /\ file.name = fileName
                    /\ file.name = fileName'
                    /\ parsedData' = Processed(file.data)]_vars

(* After a.csv was ingested with a retained row, C.CSV was ingested: its   *)
(* row is shown under its name.                                            *)
C24_Witness ==
    /\ pastIngest # <<>>
    /\ pastIngest[1].first # <<>>
    /\ pastIngest[1].file[1].name = <<"a", "csv">>
    /\ pastIngest[1].first[1].state.parsedData # <<>>
    /\ UiReady
    /\ fileName = <<"C", "CSV">>
    /\ inflight = <<>>
(* The fetch rejected, the response was not ok, or its body is not JSON. *)
OrdsFailed ==
    /\ ords.response # Null
    /\ \/ ords.response[1].rejected
       \/ ~ResponseOk(ords.response[1])
       \/ ords.response[1].body = Null

(* C25: in ORDSComponent loading starts true, becomes false once, after    *)
(* the fetch has settled, and never returns to true; when it becomes false *)
(* error is non-null exactly if the fetch rejected, the response was not   *)
(* ok or the body was not JSON, and data is set only if none of these      *)
(* happened; Loading... is shown until then, and the error view comes      *)
(* before the data view.                                                   *)
C25_OrdsLoadsOnce ==
    /\ ords.loading
    /\ <>(~ords.loading)
    /\ [][ords.loading' => ords.loading]_vars
    /\ [][ords.loading /\ ~ords.loading' =>
             /\ ords.response # Null
             /\ ords'.error # Null <=> OrdsFailed
             /\ ords'.data # Null => ~OrdsFailed]_vars
    /\ [](ords.data # Null => ords.response # Null /\ ~OrdsFailed)
    /\ [](OrdsView = "Loading..." <=> ords.loading)
    /\ [](~ords.loading /\ ords.error # Null => OrdsView = "Error")
    /\ [](OrdsView = "ORDS Data" => ~ords.loading /\ ords.error = Null)

(* A response that is ok with a body that is not JSON has ended in the     *)
(* error view.                                                             *)
C25_Witness ==
    /\ ords.pc = "done"
    /\ ~ords.loading
    /\ ords.response[1].status = 200
    /\ ords.response[1].body = Null
    /\ ords.error = Some("SyntaxError")
    /\ ords.data = Null
    /\ OrdsView = "Error"
====
